---------------------------- MODULE Spec2Model ----------------------------
(***************************************************************************)
(* Order lifecycle, change notification and live position tracking of the  *)
(* MomoGhar ordering app (src/momo-order-app.jsx).                         *)
(*                                                                         *)
(* The store is the hosted database (tables orders / order_items).  Every *)
(* client (two kitchen dashboard sessions and one customer app) keeps its  *)
(* own local `orders` React state.  Every remote call is asynchronous: a   *)
(* request is put in flight by the handler, applied by the store in a      *)
(* later step, and its response is handled in a still later step.          *)
(* Money is kept in integer cents.                                         *)
(***************************************************************************)
EXTENDS Integers, Sequences, FiniteSets, TLC

\* JavaScript null: a value outside every id and coordinate domain.
Null == 0 - 1

\* JavaScript undefined, where a status string is expected.
Undefined == "undefined"

\* ---------------------------------------------------------------- actors
Dashboards == {"d1", "d2"}
Customer == "cu"
Clients == Dashboards \cup {Customer}

\* ---------------------------------------------------------------- bounds
MaxInFlight == 2       \* requests, responses and push events in flight at once
MaxClicks == 3         \* operator actions on the dashboards in one run
MaxSamples == 1        \* positions the geolocation watch reports in one run
MaxPolls == 1          \* fallback polls in one run (lifecycle)
MaxOrders == 1         \* checkouts the customer starts in one run
MaxQty == 2            \* quantity of one cart line
MaxStatusPolls == 1    \* polls of the store status in one run
MaxToggles == 2        \* uses of the Open/Closed switch in one run
MaxSyncs == 1          \* answers to the customer's profile sync in one run
MaxRoutes == 2         \* route requests of the customer's tracking map in one run

\* Device positions the geolocation watch can report (lat, lng).
Samples == { <<43, 79>> }

\* ------------------------------------------------------- program constants
ORDER_STATUSES == <<"pending", "accepted", "cooking", "ready", "delivering", "delivered">>

\* ORDER_STATUSES.indexOf(status): 0-based, -1 when absent.
indexOf(s) ==
  IF \E i \in 1..Len(ORDER_STATUSES) : ORDER_STATUSES[i] = s
  THEN (CHOOSE i \in 1..Len(ORDER_STATUSES) : ORDER_STATUSES[i] = s) - 1
  ELSE -1

\* ORDER_STATUSES[ORDER_STATUSES.indexOf(order.status) + 1]; undefined past the end.
nextStatus(s) ==
  LET j == indexOf(s) + 1   \* 0-based index of the successor
  IN IF j + 1 \in 1..Len(ORDER_STATUSES) THEN ORDER_STATUSES[j + 1] ELSE Undefined

\* Two rows of menu_items (Chicken Momo 12.99, Veggie Momo 10.99), prices in cents.
Menu == { [id |-> 1, price |-> 1299], [id |-> 2, price |-> 1099] }

\* JavaScript truthiness of a nullable number: null and 0 are falsy.
Truthy(v) == v # Null /\ v # 0

\* ------------------------------------------------------------------ state
VARIABLES
  db,          \* orders table joined with order_items: id -> row
  orders,      \* client -> local order collection (sequence, as displayed)
  navOrderId,  \* dashboard -> id of the order whose navigation view is open
  watchId,     \* dashboard -> id of the order the geolocation watch writes for
  statusReq,   \* status updates in flight to the store
  statusResp,  \* their responses in flight back to the dashboard
  posReq,      \* driver_lat/driver_lng updates in flight to the store
  events,      \* client -> push events in flight to it
  pollResp,    \* client -> the snapshot (at most one) read by fetchAll, not yet applied
  insFetch,    \* client -> rows read by the INSERT handler, not yet applied
  used,        \* how many operator actions, device samples and polls have happened
  cart,        \* customer: cart lines [id, qty, price]
  co,          \* customer: the insertOrder call in progress (its closure and position)
  orderLoading,
  orderError,
  points,      \* customer: loyalty points
  isOpen,      \* store_settings.is_open of the row with id 1
  storeOpen,   \* client -> its local storeOpen flag
  settingsReq, \* store_settings updates in flight to the store
  statusFetch, \* client -> is_open values read by fetchStatus, not yet applied
  paymentMethod,   \* customer: "cash" or "stripe"
  stripeSheetOpen, \* customer: the payment sheet is open (with its client secret)
  pay,         \* customer: "intent" while the payment-intent request is in flight
  menu_items,  \* menu_items.is_available: item id -> BOOLEAN
  menu,        \* dashboard -> its local menu (item id -> isAvailable)
  menuReq,     \* menu_items updates in flight to the store
  authed,      \* client -> a customer is logged in / the dashboard is authenticated
  channel,     \* client -> number of realtime channels it is subscribed with
  interval,    \* client -> number of orders poll intervals it has running
  route,       \* view -> the displayed route (ETA, distance, line), Null when none
  routeReq     \* routing requests in flight, by view

vars == <<db, orders, navOrderId, watchId, statusReq, statusResp, posReq,
          events, pollResp, insFetch, used, cart, co, orderLoading, orderError, points,
          isOpen, storeOpen, settingsReq, statusFetch, paymentMethod, stripeSheetOpen,
          pay, menu_items, menu, menuReq, authed, channel, interval, route, routeReq>>

\* The customer app's own state.
custVars == <<cart, co, orderLoading, orderError, points>>

\* The open/closed switch of the kitchen, at the store and in every client.
settingsVars == <<isOpen, storeOpen, settingsReq, statusFetch>>

\* The card payment of the customer app.
payVars == <<paymentMethod, stripeSheetOpen, pay>>

\* The menu's availability flags, at the store and in the dashboards.
menuVars == <<menu_items, menu, menuReq>>

\* The session of every client and what its subscription effect holds.
sessVars == <<authed, channel, interval>>

\* The routes shown by the navigation views (by dashboard) and by the customer's
\* tracking map.
routeVars == <<route, routeReq>>

\* --------------------------------------------------------------- helpers
\* Bound bookkeeping: the total size of the sets f[x], x in S.
RECURSIVE SumCard(_, _)
SumCard(f, S) ==
  IF S = {} THEN 0
  ELSE LET x == CHOOSE y \in S : TRUE
       IN Cardinality(f[x]) + SumCard(f, S \ {x})

\* Messages of every kind that are on the network.
InFlight ==
  Cardinality(statusReq) + Cardinality(statusResp) + Cardinality(posReq)
    + SumCard(events, Clients) + SumCard(pollResp, Clients) + SumCard(insFetch, Clients)
    + (IF co.pc # "idle" THEN 1 ELSE 0)
    + Cardinality(settingsReq) + SumCard(statusFetch, Clients)
    + (IF pay # "idle" THEN 1 ELSE 0)
    + Cardinality(menuReq)

Map(f(_), s) == [i \in 1..Len(s) |-> f(s[i])]

\* prev.some(o => o.id === id)
some(prev, id) == \E i \in 1..Len(prev) : prev[i].id = id

\* Normalize a DB order row into the shape the UI expects.
normalizeOrder(row) ==
  [ id        |-> row.id,
    items     |-> Map(LAMBDA i : [id |-> i.menu_item_id, qty |-> i.qty, price |-> i.price],
                      row.order_items),
    total     |-> row.total,
    status    |-> row.status,
    driverLat |-> IF Truthy(row.driver_lat) THEN row.driver_lat ELSE Null,
    driverLng |-> IF Truthy(row.driver_lng) THEN row.driver_lng ELSE Null,
    paymentMethod |-> row.payment_method,
    paymentStatus |-> row.payment_status,
    createdAt |-> row.created_at ]

\* select("*, order_items(*)").order("created_at", { ascending: false }):
\* created_at grows with the id, so the newest row is the one with the largest id.
RECURSIVE SelectAllDesc(_, _)
SelectAllDesc(table, ids) ==
  IF ids = {} THEN <<>>
  ELSE LET m == CHOOSE i \in ids : \A j \in ids : j <= i
       IN <<table[m]>> \o SelectAllDesc(table, ids \ {m})

\* payload.new of a change event: the columns of the orders table, without the
\* order_items the selects join in.
Payload(row) ==
  [ id |-> row.id, status |-> row.status, driver_lat |-> row.driver_lat,
    driver_lng |-> row.driver_lng, total |-> row.total,
    payment_method |-> row.payment_method, payment_status |-> row.payment_status,
    created_at |-> row.created_at ]

\* The store's change notification: the new row is published to the subscribed
\* clients.  Push delivery is not guaranteed, so any subset `to` of them gets it; a
\* client's channel delivers in order, so one with an event still undelivered is
\* not in `to`.
Broadcast(type, row, to) ==
  /\ to \subseteq {c \in Clients : events[c] = {} /\ channel[c] > 0}
  /\ events' = [c \in Clients |->
                  IF c \in to THEN {[type |-> type, new |-> Payload(row)]} ELSE events[c]]

\* useState(null) for eta and distance, useRef(null) for routeLine and the eta timer:
\* what a freshly mounted map view shows.
NoRoute == [eta |-> Null, distance |-> Null, line |-> Null, timer |-> FALSE]

\* The route the view shows at the start of a run, and what the routing service can
\* answer: an error, a body without a route, or a new route.
ShownRoute == [eta |-> 7, distance |-> 31, line |-> 1]
Routes == {[eta |-> 4, distance |-> 18, line |-> 2]}
RouteAnswers ==
  {[error |-> TRUE, routes |-> <<>>], [error |-> FALSE, routes |-> <<>>]}
    \cup {[error |-> FALSE, routes |-> <<r>>] : r \in Routes}

\* Nothing of the run's budgets has been used.
NoneUsed ==
  [clicks |-> 0, samples |-> 0, polls |-> 0, orders |-> 0, status |-> 0, routes |-> 0, syncs |-> 0]

\* One more operator action, device sample or poll, while the run's budget lasts.
Spend(kind, max) ==
  /\ used[kind] < max
  /\ used' = [used EXCEPT ![kind] = @ + 1]

\* -------------------------------------------------------------- initially
InitItems == << [menu_item_id |-> 1, qty |-> 1, price |-> 1299] >>

InitRow(s) ==
  [ id |-> 1, status |-> s, driver_lat |-> Null, driver_lng |-> Null,
    order_items |-> InitItems, total |-> 1299 + 399,
    payment_method |-> "cash", payment_status |-> "pending", created_at |-> 1 ]

Idle ==
  [pc |-> "idle", cart |-> <<>>, method |-> "cash", status |-> "pending", id |-> Null,
   full |-> <<>>]

\* useState([]), useState(false), useState(""); no checkout in progress.
InitCustomer ==
  /\ cart = <<>>
  /\ co = Idle
  /\ orderLoading = FALSE
  /\ orderError = ""
  /\ points = 0

\* useState(true) and the open kitchen, useState("cash"), no payment sheet, and the
\* menu as every client loaded it; every client is logged in, with its subscription
\* effect run once, and shows no route.
InitShop ==
  /\ isOpen = TRUE
  /\ storeOpen = [c \in Clients |-> TRUE]
  /\ settingsReq = {}
  /\ statusFetch = [c \in Clients |-> {}]
  /\ paymentMethod = "cash"
  /\ stripeSheetOpen = FALSE
  /\ pay = "idle"
  /\ menu_items = [i \in {m.id : m \in Menu} |-> TRUE]
  /\ menu = [d \in Dashboards |-> [i \in {m.id : m \in Menu} |-> TRUE]]
  /\ menuReq = {}
  /\ authed = [c \in Clients |-> TRUE]
  /\ channel = [c \in Clients |-> 1]
  /\ interval = [c \in Clients |-> 1]
  /\ route = [c \in Clients |-> NoRoute]
  /\ routeReq = {}

\* One order has been placed, the kitchen has taken it through some of its stages,
\* every client has fetched it and the network is quiet.
InitLife ==
  /\ \E s \in {"pending", "accepted", "cooking", "ready", "delivering"} :
       /\ db = (1 :> InitRow(s))
       /\ orders = [c \in Clients |-> <<normalizeOrder(InitRow(s))>>]
  /\ used = NoneUsed
  /\ InitCustomer
  /\ InitShop
  /\ navOrderId = [d \in Dashboards |-> Null]
  /\ watchId = [d \in Dashboards |-> Null]
  /\ statusReq = {}
  /\ statusResp = {}
  /\ posReq = {}
  /\ events = [c \in Clients |-> {}]
  /\ pollResp = [c \in Clients |-> {}]
  /\ insFetch = [c \in Clients |-> {}]

\* ------------------------------------------------- kitchen dashboard (UI)
\* supabase.from("orders").update({ status }).eq("id", orderId): the request leaves.
updateOrderStatus(d, orderId, newStatus) ==
  /\ InFlight < MaxInFlight
  /\ statusReq' = statusReq \cup {[by |-> d, id |-> orderId, status |-> newStatus]}

\* An OrderCard that is rendered only once the order has a driver position.
CardShown_needsPosition(d, i) ==
  /\ authed[d]
  /\ navOrderId[d] = Null
  /\ i \in 1..Len(orders[d])
  /\ orders[d][i].status \in {"pending", "accepted", "cooking", "ready", "delivering"}
  /\ orders[d][i].driverLat # Null

\* An OrderCard is rendered for the pending, active and delivering lists only, by a
\* dashboard that is shown (authenticated, in dashboard mode), and the navigation
\* view, when open, covers the whole dashboard.
CardShown(d, i) ==
  /\ authed[d]
  /\ navOrderId[d] = Null
  /\ i \in 1..Len(orders[d])
  /\ orders[d][i].status \in {"pending", "accepted", "cooking", "ready", "delivering"}

\* Reject button.
ClickReject(d, i) ==
  /\ Spend("clicks", MaxClicks)
  /\ CardShown(d, i)
  /\ orders[d][i].status = "pending"
  /\ updateOrderStatus(d, orders[d][i].id, "cancelled")
  /\ UNCHANGED <<db, orders, navOrderId, watchId, statusResp, posReq, events,
                 pollResp, insFetch, custVars, settingsVars, payVars, menuVars, sessVars, routeVars>>

\* Accept / Start Cooking / Mark Ready button.
ClickNext(d, i) ==
  /\ Spend("clicks", MaxClicks)
  /\ CardShown(d, i)
  /\ LET n == nextStatus(orders[d][i].status)
     IN /\ n # Undefined /\ n # "delivered" /\ n # "delivering"
        /\ updateOrderStatus(d, orders[d][i].id, n)
  /\ UNCHANGED <<db, orders, navOrderId, watchId, statusResp, posReq, events,
                 pollResp, insFetch, custVars, settingsVars, payVars, menuVars, sessVars, routeVars>>

\* DriverNavMap mounts for navOrder = orders.find(o => o.id === navOrderId) and its
\* effect starts navigator.geolocation.watchPosition for that order id.
OpenNav(d, orderId) ==
  /\ navOrderId' = [navOrderId EXCEPT ![d] = orderId]
  /\ watchId' = [watchId EXCEPT ![d] = orderId]

\* Out for Delivery button: updateOrderStatus(order.id, "delivering"); setNavOrderId(order.id).
ClickOutForDelivery(d, i) ==
  /\ Spend("clicks", MaxClicks)
  /\ CardShown(d, i)
  /\ nextStatus(orders[d][i].status) = "delivering"
  /\ updateOrderStatus(d, orders[d][i].id, "delivering")
  /\ OpenNav(d, orders[d][i].id)
  /\ UNCHANGED <<db, orders, statusResp, posReq, events, pollResp, insFetch, custVars, settingsVars, payVars, menuVars, sessVars, routeVars>>

\* Navigate button.
ClickNavigate(d, i) ==
  /\ Spend("clicks", MaxClicks)
  /\ CardShown(d, i)
  /\ orders[d][i].status = "delivering"
  /\ OpenNav(d, orders[d][i].id)
  /\ UNCHANGED <<db, orders, statusReq, statusResp, posReq, events, pollResp, insFetch, custVars, settingsVars, payVars, menuVars, sessVars, routeVars>>

\* Delivered button of the order card.
ClickDelivered(d, i) ==
  /\ Spend("clicks", MaxClicks)
  /\ CardShown(d, i)
  /\ orders[d][i].status = "delivering"
  /\ updateOrderStatus(d, orders[d][i].id, "delivered")
  /\ UNCHANGED <<db, orders, navOrderId, watchId, statusResp, posReq, events,
                 pollResp, insFetch, custVars, settingsVars, payVars, menuVars, sessVars, routeVars>>

\* DriverNavMap unmounts: its eta, distance and route line are gone, the eta timer
\* is cleared, and an answer still on its way reaches no mounted view.
NavUnmount(d) ==
  /\ route' = [route EXCEPT ![d] = NoRoute]
  /\ routeReq' = {r \in routeReq : r.view # d}

\* Mark as Delivered in the navigation view: clearWatch, write null coordinates,
\* then onDelivered = updateOrderStatus(navOrder.id, "delivered"); setNavOrderId(null).
handleDelivered(d) ==
  /\ Spend("clicks", MaxClicks)
  /\ navOrderId[d] # Null
  /\ InFlight + 1 < MaxInFlight
  /\ posReq' = posReq \cup {[id |-> navOrderId[d], lat |-> Null, lng |-> Null]}
  /\ updateOrderStatus(d, navOrderId[d], "delivered")
  /\ navOrderId' = [navOrderId EXCEPT ![d] = Null]
  /\ watchId' = [watchId EXCEPT ![d] = Null]
  /\ NavUnmount(d)
  /\ UNCHANGED <<db, orders, statusResp, events, pollResp, insFetch, custVars, settingsVars, payVars, menuVars, sessVars>>

\* Back arrow of the navigation view: setNavOrderId(null); the effect cleanup clears the watch.
onClose(d) ==
  /\ Spend("clicks", MaxClicks)
  /\ navOrderId[d] # Null
  /\ navOrderId' = [navOrderId EXCEPT ![d] = Null]
  /\ watchId' = [watchId EXCEPT ![d] = Null]
  /\ NavUnmount(d)
  /\ UNCHANGED <<db, orders, statusReq, statusResp, posReq, events, pollResp, insFetch, custVars, settingsVars, payVars, menuVars, sessVars>>

\* watchPosition success callback: the sample is written to the order's row and the
\* route fetch is scheduled (clearTimeout; setTimeout(..., 2000)).
watchPosition(d, p) ==
  /\ Spend("samples", MaxSamples)
  /\ watchId[d] # Null
  /\ InFlight < MaxInFlight
  /\ posReq' = posReq \cup {[id |-> watchId[d], lat |-> p[1], lng |-> p[2]]}
  /\ route' = [route EXCEPT ![d].timer = TRUE]
  /\ UNCHANGED <<db, orders, navOrderId, watchId, statusReq, statusResp, events,
                 pollResp, insFetch, custVars, settingsVars, payVars, menuVars, sessVars, routeReq>>

\* The eta timer of the navigation view fires: the route from the driver to the
\* customer is requested.
etaTimeout(d) ==
  /\ route[d].timer
  /\ route' = [route EXCEPT ![d].timer = FALSE]
  /\ routeReq' = routeReq \cup {[view |-> d, from |-> "driver"]}
  /\ UNCHANGED <<db, orders, navOrderId, watchId, statusReq, statusResp, posReq, events,
                 pollResp, insFetch, used, custVars, settingsVars, payVars, menuVars, sessVars>>

\* The customer's tracking map requests a route.  From the kitchen: the first effect
\* runs (mount, or a change of the order's status), which builds a new map without a
\* route line.  From the driver: the timer of the second effect fires for an order
\* that has a driver position.
mapFetchRoute(from) ==
  /\ Spend("routes", MaxRoutes)
  /\ Len(orders[Customer]) > 0
  /\ from = "driver" => orders[Customer][1].driverLat # Null
  /\ [view |-> Customer, from |-> from] \notin routeReq
  /\ routeReq' = routeReq \cup {[view |-> Customer, from |-> from]}
  /\ route' = IF from = "kitchen" THEN [route EXCEPT ![Customer].line = Null] ELSE route
  /\ UNCHANGED <<db, orders, navOrderId, watchId, statusReq, statusResp, posReq, events,
                 pollResp, insFetch, custVars, settingsVars, payVars, menuVars, sessVars>>

\* A handler of the routing answer that clears the display when there is no route.
RouteResponse_clears(r, res) ==
  /\ r \in routeReq
  /\ routeReq' = routeReq \ {r}
  /\ route' = [route EXCEPT ![r.view] =
                 IF ~res.error /\ Len(res.routes) > 0
                 THEN [@ EXCEPT !.eta = res.routes[1].eta,
                                !.distance = res.routes[1].distance,
                                !.line = res.routes[1].line]
                 ELSE [@ EXCEPT !.eta = Null, !.distance = Null, !.line = Null]]
  /\ UNCHANGED <<db, orders, navOrderId, watchId, statusReq, statusResp, posReq, events,
                 pollResp, insFetch, used, custVars, settingsVars, payVars, menuVars, sessVars>>

\* The routing answer: if (data.routes && data.routes[0]) the route line, the eta and
\* the distance are replaced; a body without a route does nothing and an error is
\* caught by .catch(() => {}).
RouteResponse(r, res) ==
  /\ r \in routeReq
  /\ routeReq' = routeReq \ {r}
  /\ route' = IF ~res.error /\ Len(res.routes) > 0
              THEN [route EXCEPT ![r.view] =
                      [@ EXCEPT !.eta = res.routes[1].eta,
                                !.distance = res.routes[1].distance,
                                !.line = res.routes[1].line]]
              ELSE route
  /\ UNCHANGED <<db, orders, navOrderId, watchId, statusReq, statusResp, posReq, events,
                 pollResp, insFetch, used, custVars, settingsVars, payVars, menuVars, sessVars>>

\* watchPosition error callback, () => {}: a geolocation error or a denied
\* permission is reported to the view and changes nothing.
watchError(d) ==
  /\ Spend("samples", MaxSamples)
  /\ watchId[d] # Null
  /\ UNCHANGED <<db, orders, navOrderId, watchId, statusReq, statusResp, posReq, events,
                 pollResp, insFetch, custVars, settingsVars, payVars, menuVars, sessVars,
                 routeVars>>

\* ------------------------------------------------------------- the store
\* update({ status }).eq("id", id) reaches the store: the row is written whatever
\* its current status, and the new row is published.
StoreStatusWrite(r, to) ==
  /\ r \in statusReq
  /\ r.id \in DOMAIN db
  /\ statusReq' = statusReq \ {r}
  /\ db' = [db EXCEPT ![r.id].status = r.status]
  /\ Broadcast("UPDATE", db'[r.id], to)
  /\ InFlight + Cardinality(to) <= MaxInFlight
  /\ statusResp' = statusResp \cup {[by |-> r.by, id |-> r.id, status |-> r.status, error |-> FALSE]}
  /\ UNCHANGED <<orders, navOrderId, watchId, posReq, pollResp, insFetch, used, custVars, settingsVars, payVars, menuVars, sessVars, routeVars>>

\* The update fails (network or server error): nothing is written.
StoreStatusFail(r) ==
  /\ r \in statusReq
  /\ statusReq' = statusReq \ {r}
  /\ statusResp' = statusResp \cup {[by |-> r.by, id |-> r.id, status |-> r.status, error |-> TRUE]}
  /\ UNCHANGED <<db, orders, navOrderId, watchId, posReq, events, pollResp, insFetch, used, custVars, settingsVars, payVars, menuVars, sessVars, routeVars>>

\* A response handler that sets the local status without looking at the error.
StatusResponse_optimistic(r) ==
  /\ r \in statusResp
  /\ statusResp' = statusResp \ {r}
  /\ orders' = [orders EXCEPT ![r.by] =
                  Map(LAMBDA o : IF o.id = r.id THEN [o EXCEPT !.status = r.status] ELSE o,
                      orders[r.by])]
  /\ UNCHANGED <<db, navOrderId, watchId, statusReq, posReq, events, pollResp, insFetch, used, custVars, settingsVars, payVars, menuVars, sessVars, routeVars>>

\* if (!error) setOrders(prev => prev.map(o => o.id === orderId ? { ...o, status: newStatus } : o))
StatusResponse(r) ==
  /\ r \in statusResp
  /\ statusResp' = statusResp \ {r}
  /\ orders' = IF r.error THEN orders
               ELSE [orders EXCEPT ![r.by] =
                       Map(LAMBDA o : IF o.id = r.id THEN [o EXCEPT !.status = r.status] ELSE o,
                           orders[r.by])]
  /\ UNCHANGED <<db, navOrderId, watchId, statusReq, posReq, events, pollResp, insFetch, used, custVars, settingsVars, payVars, menuVars, sessVars, routeVars>>

\* update({ driver_lat, driver_lng }).eq("id", id) reaches the store.
StorePosWrite(w, to) ==
  /\ w \in posReq
  /\ w.id \in DOMAIN db
  /\ posReq' = posReq \ {w}
  /\ db' = [db EXCEPT ![w.id].driver_lat = w.lat, ![w.id].driver_lng = w.lng]
  /\ Broadcast("UPDATE", db'[w.id], to)
  /\ (InFlight - 1) + Cardinality(to) <= MaxInFlight
  /\ UNCHANGED <<orders, navOrderId, watchId, statusReq, statusResp, pollResp, insFetch, used, custVars, settingsVars, payVars, menuVars, sessVars, routeVars>>

\* The position write fails; its result is ignored (.then() with no handler).
StorePosFail(w) ==
  /\ w \in posReq
  /\ posReq' = posReq \ {w}
  /\ UNCHANGED <<db, orders, navOrderId, watchId, statusReq, statusResp, events,
                 pollResp, insFetch, used, custVars, settingsVars, payVars, menuVars, sessVars, routeVars>>

\* ------------------------------------------------ change notification bridge
\* A reducer that replaces the record by what the event carries (no line items).
applyUpdate_replace(prev, n) ==
  Map(LAMBDA o : IF o.id = n.id
                 THEN [ id |-> n.id, items |-> <<>>, total |-> n.total, status |-> n.status,
                        driverLat |-> n.driver_lat, driverLng |-> n.driver_lng,
                        paymentMethod |-> n.payment_method,
                        paymentStatus |-> n.payment_status, createdAt |-> n.created_at ]
                 ELSE o,
      prev)

\* The realtime UPDATE handler's reducer.
applyUpdate(prev, n) ==
  Map(LAMBDA o : IF o.id = n.id
                 THEN [o EXCEPT !.status = n.status,
                                !.driverLat = IF Truthy(n.driver_lat) THEN n.driver_lat ELSE o.driverLat,
                                !.driverLng = IF Truthy(n.driver_lng) THEN n.driver_lng ELSE o.driverLng]
                 ELSE o,
      prev)

OnUpdateEvent(c, e) ==
  /\ channel[c] > 0
  /\ e \in events[c]
  /\ e.type = "UPDATE"
  /\ events' = [events EXCEPT ![c] = @ \ {e}]
  /\ orders' = [orders EXCEPT ![c] = applyUpdate(@, e.new)]
  /\ UNCHANGED <<db, navOrderId, watchId, statusReq, statusResp, posReq, pollResp, insFetch, used, custVars, settingsVars, payVars, menuVars, sessVars, routeVars>>

\* A push event is lost on its way (connection drop, transient error).
LoseEvent(c, e) ==
  /\ e \in events[c]
  /\ events' = [events EXCEPT ![c] = @ \ {e}]
  /\ UNCHANGED <<db, orders, navOrderId, watchId, statusReq, statusResp, posReq,
                 pollResp, insFetch, used, custVars, settingsVars, payVars, menuVars, sessVars, routeVars>>

\* fetchAll, first half: the select runs at the store.
fetchAllSelect(c) ==
  /\ interval[c] > 0
  /\ pollResp[c] = {}
  /\ pollResp' = [pollResp EXCEPT ![c] = {SelectAllDesc(db, DOMAIN db)}]
  /\ UNCHANGED <<db, orders, navOrderId, watchId, statusReq, statusResp, posReq,
                 events, insFetch, custVars, settingsVars, payVars, menuVars, sessVars, routeVars>>

\* One of the polls of a run in which the polls are counted.
fetchAll(c) ==
  /\ Spend("polls", MaxPolls)
  /\ InFlight < MaxInFlight
  /\ fetchAllSelect(c)

\* setInterval(fetchAll, 5000): the poll of a client, as often as the timer fires.
pollInterval(c) ==
  /\ fetchAllSelect(c)
  /\ UNCHANGED used

\* A poll that only adds the orders the client does not have yet.
fetchAllApply_merge(c) ==
  /\ \E data \in pollResp[c] :
       orders' = [orders EXCEPT ![c] =
                    SelectSeq(Map(normalizeOrder, data), LAMBDA o : ~some(@, o.id)) \o @]
  /\ pollResp' = [pollResp EXCEPT ![c] = {}]
  /\ UNCHANGED <<db, navOrderId, watchId, statusReq, statusResp, posReq, events, insFetch, used, custVars, settingsVars, payVars, menuVars, sessVars, routeVars>>

\* fetchAll, second half: if (data) setOrders(data.map(normalizeOrder)).
fetchAllApply(c) ==
  /\ \E data \in pollResp[c] :
       orders' = [orders EXCEPT ![c] = Map(normalizeOrder, data)]
  /\ pollResp' = [pollResp EXCEPT ![c] = {}]
  /\ UNCHANGED <<db, navOrderId, watchId, statusReq, statusResp, posReq, events, insFetch, used, custVars, settingsVars, payVars, menuVars, sessVars, routeVars>>

\* The select fails: data is null and nothing is applied.
fetchAllFail(c) ==
  /\ pollResp[c] # {}
  /\ pollResp' = [pollResp EXCEPT ![c] = {}]
  /\ UNCHANGED <<db, orders, navOrderId, watchId, statusReq, statusResp, posReq,
                 events, insFetch, used, custVars, settingsVars, payVars, menuVars, sessVars, routeVars>>

\* ------------------------------------------------------------ customer app
RECURSIVE SumLines(_)
\* cart.reduce((sum, c) => sum + c.price * c.qty, 0)
SumLines(lines) ==
  IF lines = <<>> THEN 0
  ELSE Head(lines).price * Head(lines).qty + SumLines(Tail(lines))

cartTotal(c) == SumLines(c)

\* A delivery fee charged whatever the subtotal.
deliveryFee_flat(c) == 399

\* cartTotal >= 25 ? 0 : 3.99
deliveryFee(c) == IF cartTotal(c) >= 2500 THEN 0 ELSE 399

\* The Add button of the menu screen (the payment sheet, while open, covers the app).
addToCart(item) ==
  /\ item \in Menu
  /\ ~stripeSheetOpen
  /\ \A i \in 1..Len(cart) : cart[i].id = item.id => cart[i].qty < MaxQty
  /\ cart' = IF \E i \in 1..Len(cart) : cart[i].id = item.id
             THEN Map(LAMBDA c : IF c.id = item.id THEN [c EXCEPT !.qty = @ + 1] ELSE c, cart)
             ELSE Append(cart, [id |-> item.id, qty |-> 1, price |-> item.price])
  /\ UNCHANGED <<db, orders, navOrderId, watchId, statusReq, statusResp, posReq, events, pollResp, insFetch, used, co, orderLoading, orderError, points, settingsVars, payVars, menuVars, sessVars, routeVars>>

\* The + and - buttons of a cart line.
updateQty(id, delta) ==
  /\ ~stripeSheetOpen
  /\ \E i \in 1..Len(cart) : cart[i].id = id /\ cart[i].qty + delta <= MaxQty
  /\ cart' = SelectSeq(
               Map(LAMBDA c : IF c.id = id
                              THEN [c EXCEPT !.qty = IF c.qty + delta > 0 THEN c.qty + delta ELSE 0]
                              ELSE c, cart),
               LAMBDA c : c.qty > 0)
  /\ UNCHANGED <<db, orders, navOrderId, watchId, statusReq, statusResp, posReq, events, pollResp, insFetch, used, co, orderLoading, orderError, points, settingsVars, payVars, menuVars, sessVars, routeVars>>

\* The Place Order button: disabled={cart.length === 0 || orderLoading || !deliveryAddress
\* || !storeOpen}; the payment sheet, while open, covers it.
PlaceOrderButton ==
  /\ Len(cart) > 0
  /\ ~orderLoading
  /\ storeOpen[Customer]
  /\ ~stripeSheetOpen

\* The button can be pressed; a run follows one placement at a time.
PlaceOrderEnabled ==
  /\ PlaceOrderButton
  /\ co.pc = "idle"
  /\ pay = "idle"

\* Place Order (cash): insertOrder("pending") sends the insert of the order row.  The
\* call keeps the cart of the render it was made in.
placeOrder ==
  /\ Spend("orders", MaxOrders)
  /\ PlaceOrderEnabled
  /\ paymentMethod = "cash"
  /\ InFlight < MaxInFlight
  /\ orderError' = ""
  /\ orderLoading' = TRUE
  /\ co' = [pc |-> "insert", cart |-> cart, method |-> paymentMethod, status |-> "pending",
            id |-> Null, full |-> <<>>]
  /\ UNCHANGED <<db, orders, navOrderId, watchId, statusReq, statusResp, posReq, events, pollResp, insFetch, cart, points, settingsVars, payVars, menuVars, sessVars, routeVars>>

\* from("orders").insert({...}).select().single() reaches the store: the row gets a
\* fresh id and the creation time, and is published.
StoreInsertOrder(to) ==
  /\ co.pc = "insert"
  /\ LET id == Cardinality(DOMAIN db) + 1
         row == [ id |-> id, status |-> "pending", driver_lat |-> Null, driver_lng |-> Null,
                  order_items |-> <<>>, total |-> cartTotal(co.cart) + deliveryFee(co.cart),
                  payment_method |-> co.method, payment_status |-> co.status,
                  created_at |-> id ]
     IN /\ db' = [i \in DOMAIN db \cup {id} |-> IF i = id THEN row ELSE db[i]]
        /\ co' = [co EXCEPT !.pc = "inserted", !.id = id]
        /\ Broadcast("INSERT", row, to)
        /\ InFlight + Cardinality(to) <= MaxInFlight
  /\ UNCHANGED <<orders, navOrderId, watchId, statusReq, statusResp, posReq, pollResp,
                 insFetch, used, cart, orderLoading, orderError, points, settingsVars, payVars, menuVars, sessVars, routeVars>>

\* The insert fails.
StoreInsertOrderFail ==
  /\ co.pc = "insert"
  /\ co' = [co EXCEPT !.pc = "insertFailed"]
  /\ UNCHANGED <<db, orders, navOrderId, watchId, statusReq, statusResp, posReq, events, pollResp, insFetch, used, cart, orderLoading, orderError, points, settingsVars, payVars, menuVars, sessVars, routeVars>>

\* An error branch that goes on to the end of insertOrder: points, cart reset.
insertOrderError_fallsThrough ==
  /\ co.pc = "insertFailed"
  /\ orderError' = "Failed to place order"
  /\ orderLoading' = FALSE
  /\ points' = points + ((cartTotal(co.cart) + deliveryFee(co.cart)) \div 10)
  /\ cart' = <<>>
  /\ co' = Idle
  /\ UNCHANGED <<db, orders, navOrderId, watchId, statusReq, statusResp, posReq, events, pollResp, insFetch, used, settingsVars, payVars, menuVars, sessVars, routeVars>>

\* if (error) { setOrderError(...); setOrderLoading(false); return; }
insertOrderError ==
  /\ co.pc = "insertFailed"
  /\ orderError' = "Failed to place order"
  /\ orderLoading' = FALSE
  /\ co' = Idle
  /\ UNCHANGED <<db, orders, navOrderId, watchId, statusReq, statusResp, posReq, events, pollResp, insFetch, used, cart, points, settingsVars, payVars, menuVars, sessVars, routeVars>>

\* A line-item insert that files the lines under the oldest order, not the new one.
insertOrderItems_wrongOrder(ok) ==
  /\ co.pc = "inserted"
  /\ db' = IF ok
           THEN [db EXCEPT ![1].order_items =
                   @ \o Map(LAMBDA c : [menu_item_id |-> c.id, qty |-> c.qty, price |-> c.price], co.cart)]
           ELSE db
  /\ co' = [co EXCEPT !.pc = "itemsDone"]
  /\ UNCHANGED <<orders, navOrderId, watchId, statusReq, statusResp, posReq, events,
                 pollResp, insFetch, used, cart, orderLoading, orderError, points,
                 settingsVars, payVars, menuVars, sessVars, routeVars>>

\* await from("order_items").insert(cart.map(...)): the lines of the call's cart are
\* stored under the new order; the result is not looked at.
insertOrderItems(ok) ==
  /\ co.pc = "inserted"
  /\ db' = IF ok
           THEN [db EXCEPT ![co.id].order_items =
                   Map(LAMBDA c : [menu_item_id |-> c.id, qty |-> c.qty, price |-> c.price], co.cart)]
           ELSE db
  /\ co' = [co EXCEPT !.pc = "itemsDone"]
  /\ UNCHANGED <<orders, navOrderId, watchId, statusReq, statusResp, posReq, events,
                 pollResp, insFetch, used, cart, orderLoading, orderError, points, settingsVars, payVars, menuVars, sessVars, routeVars>>

\* const { data: fullOrder } = await select("*, order_items(*)").eq("id", order.id).single()
selectFullOrder(ok) ==
  /\ co.pc = "itemsDone"
  /\ co' = [co EXCEPT !.pc = "fetched", !.full = IF ok THEN <<db[co.id]>> ELSE <<>>]
  /\ UNCHANGED <<db, orders, navOrderId, watchId, statusReq, statusResp, posReq, events, pollResp, insFetch, used, cart, orderLoading, orderError, points, settingsVars, payVars, menuVars, sessVars, routeVars>>

\* The rest of insertOrder: the optimistic prepend, the loyalty points
\* (10 per dollar, rounded down), and the reset of the cart and the loading flag.
insertOrderDone ==
  /\ co.pc = "fetched"
  /\ orders' = IF co.full # <<>>
               THEN [orders EXCEPT ![Customer] = <<normalizeOrder(co.full[1])>> \o @]
               ELSE orders
  /\ points' = points + ((cartTotal(co.cart) + deliveryFee(co.cart)) \div 10)
  /\ cart' = <<>>
  /\ orderLoading' = FALSE
  /\ co' = Idle
  /\ UNCHANGED <<db, navOrderId, watchId, statusReq, statusResp, posReq, events,
                 pollResp, insFetch, used, orderError, settingsVars, payVars, menuVars, sessVars, routeVars>>

\* ----------------------------------------- realtime INSERT handler (any client)
\* The handler's reducer: prev.some(o => o.id === data.id) ? prev : [normalizeOrder(data), ...prev]
applyInsert(prev, data) ==
  IF some(prev, data.id) THEN prev ELSE <<normalizeOrder(data)>> \o prev

\* The INSERT event arrives and the handler's select of the new row runs at the store.
OnInsertEvent(c, e, ok) ==
  /\ channel[c] > 0
  /\ e \in events[c]
  /\ e.type = "INSERT"
  /\ events' = [events EXCEPT ![c] = @ \ {e}]
  /\ insFetch' = [insFetch EXCEPT ![c] = IF ok THEN @ \cup {db[e.new.id]} ELSE @]
  /\ UNCHANGED <<db, orders, navOrderId, watchId, statusReq, statusResp, posReq,
                 pollResp, used, custVars, settingsVars, payVars, menuVars, sessVars, routeVars>>

\* if (data) setOrders(prev => ...)
OnInsertFetched(c, data) ==
  /\ data \in insFetch[c]
  /\ insFetch' = [insFetch EXCEPT ![c] = @ \ {data}]
  /\ orders' = [orders EXCEPT ![c] = applyInsert(@, data)]
  /\ UNCHANGED <<db, navOrderId, watchId, statusReq, statusResp, posReq, events,
                 pollResp, used, custVars, settingsVars, payVars, menuVars, sessVars, routeVars>>

\* ------------------------------------------------------------ card payment
\* The Cash / Card choice of the cart screen.
setPaymentMethod(pm) ==
  /\ ~stripeSheetOpen
  /\ paymentMethod # pm
  /\ paymentMethod' = pm
  /\ UNCHANGED <<db, orders, navOrderId, watchId, statusReq, statusResp, posReq, events,
                 pollResp, insFetch, used, custVars, settingsVars, stripeSheetOpen, pay, menuVars, sessVars, routeVars>>

\* Place Order (card): the payment intent is requested for the amount of this render.
placeOrderCard ==
  /\ Spend("orders", MaxOrders)
  /\ PlaceOrderEnabled
  /\ paymentMethod = "stripe"
  /\ InFlight < MaxInFlight
  /\ orderError' = ""
  /\ orderLoading' = TRUE
  /\ pay' = "intent"
  /\ UNCHANGED <<db, orders, navOrderId, watchId, statusReq, statusResp, posReq, events,
                 pollResp, insFetch, cart, co, points, settingsVars, paymentMethod,
                 stripeSheetOpen, menuVars, sessVars, routeVars>>

\* The answer of /api/create-payment-intent: the sheet opens with the client secret,
\* or the error is shown; the loading flag is reset either way.
createPaymentIntent(ok) ==
  /\ pay = "intent"
  /\ pay' = "idle"
  /\ orderLoading' = FALSE
  /\ stripeSheetOpen' = ok
  /\ orderError' = IF ok THEN orderError ELSE "Payment failed. Please try again."
  /\ UNCHANGED <<db, orders, navOrderId, watchId, statusReq, statusResp, posReq, events,
                 pollResp, insFetch, used, cart, co, points, settingsVars, paymentMethod, menuVars, sessVars, routeVars>>

\* The sheet's close button: setStripeSheetOpen(false); setStripeClientSecret("").
closeSheet ==
  /\ stripeSheetOpen
  /\ stripeSheetOpen' = FALSE
  /\ UNCHANGED <<db, orders, navOrderId, watchId, statusReq, statusResp, posReq, events,
                 pollResp, insFetch, used, custVars, settingsVars, paymentMethod, pay, menuVars, sessVars, routeVars>>

\* The payment succeeded: the sheet closes and insertOrder("paid", id) sends the
\* insert of the order row, with the cart of the current render.
handleStripeSuccess ==
  /\ stripeSheetOpen
  /\ co.pc = "idle"
  /\ stripeSheetOpen' = FALSE
  /\ co' = [pc |-> "insert", cart |-> cart, method |-> paymentMethod, status |-> "paid",
            id |-> Null, full |-> <<>>]
  /\ UNCHANGED <<db, orders, navOrderId, watchId, statusReq, statusResp, posReq, events,
                 pollResp, insFetch, used, cart, orderLoading, orderError, points,
                 settingsVars, paymentMethod, pay, menuVars, sessVars, routeVars>>

\* ------------------------------------------------------- open / closed switch
\* The dashboard's Open/Closed switch: the local flag flips and the new value is sent.
toggleStoreOpen(d) ==
  /\ Spend("clicks", MaxToggles)
  /\ authed[d] /\ navOrderId[d] = Null
  /\ InFlight < MaxInFlight
  /\ storeOpen' = [storeOpen EXCEPT ![d] = ~storeOpen[d]]
  /\ settingsReq' = settingsReq \cup {[by |-> d, is_open |-> ~storeOpen[d]]}
  /\ UNCHANGED <<db, orders, navOrderId, watchId, statusReq, statusResp, posReq, events,
                 pollResp, insFetch, custVars, isOpen, statusFetch, payVars, menuVars, sessVars, routeVars>>

\* update({ is_open }).eq("id", 1) reaches the store; its result is not looked at.
StoreSettingsWrite(r, ok) ==
  /\ r \in settingsReq
  /\ settingsReq' = settingsReq \ {r}
  /\ isOpen' = IF ok THEN r.is_open ELSE isOpen
  /\ UNCHANGED <<db, orders, navOrderId, watchId, statusReq, statusResp, posReq, events,
                 pollResp, insFetch, used, custVars, storeOpen, statusFetch, payVars, menuVars, sessVars, routeVars>>

\* fetchStatus, first half: select("is_open").eq("id", 1).single(); data is null
\* when the select fails.
fetchStatusSelect(c, ok) ==
  /\ statusFetch[c] = {}
  /\ statusFetch' = [statusFetch EXCEPT ![c] = IF ok THEN {isOpen} ELSE {}]
  /\ UNCHANGED <<db, orders, navOrderId, watchId, statusReq, statusResp, posReq, events,
                 pollResp, insFetch, custVars, isOpen, storeOpen, settingsReq, payVars, menuVars, sessVars, routeVars>>

\* One of the status polls of a run in which they are counted.
fetchStatus(c, ok) ==
  /\ Spend("status", MaxStatusPolls)
  /\ InFlight < MaxInFlight
  /\ fetchStatusSelect(c, ok)

\* setInterval(fetchStatus, 5000): the status poll of a client, as often as the
\* timer fires.
statusInterval(c, ok) ==
  /\ fetchStatusSelect(c, ok)
  /\ UNCHANGED used

\* A second half that drops the answer.
fetchStatusApply_dropped(c) ==
  /\ statusFetch[c] # {}
  /\ statusFetch' = [statusFetch EXCEPT ![c] = {}]
  /\ UNCHANGED <<db, orders, navOrderId, watchId, statusReq, statusResp, posReq, events,
                 pollResp, insFetch, used, custVars, isOpen, storeOpen, settingsReq, payVars,
                 menuVars, sessVars, routeVars>>

\* fetchStatus, second half: if (data) setStoreOpen(data.is_open).
fetchStatusApply(c) ==
  /\ \E v \in statusFetch[c] : storeOpen' = [storeOpen EXCEPT ![c] = v]
  /\ statusFetch' = [statusFetch EXCEPT ![c] = {}]
  /\ UNCHANGED <<db, orders, navOrderId, watchId, statusReq, statusResp, posReq, events,
                 pollResp, insFetch, used, custVars, isOpen, settingsReq, payVars, menuVars, sessVars, routeVars>>

\* --------------------------------------------------------- order placement spec
\* The store is empty, every client has fetched the empty collection.
InitIns ==
  /\ db = << >>
  /\ orders = [c \in Clients |-> <<>>]
  /\ navOrderId = [d \in Dashboards |-> Null]
  /\ watchId = [d \in Dashboards |-> Null]
  /\ statusReq = {}
  /\ statusResp = {}
  /\ posReq = {}
  /\ events = [c \in Clients |-> {}]
  /\ pollResp = [c \in Clients |-> {}]
  /\ insFetch = [c \in Clients |-> {}]
  /\ used = NoneUsed
  /\ InitCustomer
  /\ InitShop

NextIns ==
  \/ \E item \in Menu : addToCart(item)
  \/ \E item \in Menu, delta \in {0 - 1, 1} : updateQty(item.id, delta)
  \/ placeOrder
  \/ \E to \in SUBSET Clients : StoreInsertOrder(to)
  \/ StoreInsertOrderFail
  \/ insertOrderError
  \/ \E ok \in BOOLEAN : insertOrderItems(ok)
  \/ \E ok \in BOOLEAN : selectFullOrder(ok)
  \/ insertOrderDone
  \/ \E c \in Clients : \E e \in events[c] : \E ok \in BOOLEAN : OnInsertEvent(c, e, ok)
  \/ \E c \in Clients : \E data \in insFetch[c] : OnInsertFetched(c, data)
  \/ \E c \in Clients : \E e \in events[c] : LoseEvent(c, e)
  \/ \E c \in Clients : fetchAll(c)
  \/ \E c \in Clients : fetchAllApply(c)
  \/ \E c \in Clients : fetchAllFail(c)

SpecIns == InitIns /\ [][NextIns]_vars


\* ----------------------------------------------------------------- sessions
\* The subscription effect after a render in which its dependencies (user,
\* isDashboard, dashboardAuthed) changed: the cleanup of the previous run, if that run
\* subscribed (removeChannel, clearInterval), then the new run, which subscribes and
\* starts the poll interval unless the client is logged out.
SubscriptionEffect_noCleanup(c, was, now) ==
  IF now THEN [ch |-> channel[c] + 1, iv |-> interval[c] + 1]
  ELSE [ch |-> channel[c], iv |-> interval[c]]

SubscriptionEffect(c, was, now) ==
  LET ch0 == IF was THEN channel[c] - 1 ELSE channel[c]
      iv0 == IF was THEN interval[c] - 1 ELSE interval[c]
  IN IF now THEN [ch |-> ch0 + 1, iv |-> iv0 + 1] ELSE [ch |-> ch0, iv |-> iv0]

\* KitchenDashboard unmounts without the DriverNavMap cleanup: the watch stays.
Unmount_keepsWatch(d) ==
  /\ navOrderId' = [navOrderId EXCEPT ![d] = Null]
  /\ watchId' = watchId
  /\ NavUnmount(d)

\* KitchenDashboard unmounts: its navOrderId state is gone, and DriverNavMap, if
\* mounted, runs its effect cleanup (clearWatch, clearTimeout, map.remove) and loses
\* its eta / distance state.
Unmount(d) ==
  /\ navOrderId' = [navOrderId EXCEPT ![d] = Null]
  /\ watchId' = [watchId EXCEPT ![d] = Null]
  /\ NavUnmount(d)

\* The dashboard stops being shown; the subscription effect runs its cleanup.
LeaveDashboard(d) ==
  /\ authed[d]
  /\ authed' = [authed EXCEPT ![d] = FALSE]
  /\ LET e == SubscriptionEffect(d, TRUE, FALSE)
     IN /\ channel' = [channel EXCEPT ![d] = e.ch]
        /\ interval' = [interval EXCEPT ![d] = e.iv]
  /\ Unmount(d)
  /\ UNCHANGED <<db, orders, statusReq, statusResp, posReq, events, pollResp, insFetch,
                 custVars, settingsVars, payVars, menuVars>>

\* Log Out in the dashboard's settings: sessionStorage.removeItem; setDashboardAuthed(false).
onLogout(d) ==
  /\ Spend("clicks", MaxClicks)
  /\ navOrderId[d] = Null
  /\ LeaveDashboard(d)

\* The hashchange listener: the location leaves #dashboard (back button, edited
\* address) and setIsDashboard(false) is called, whatever the dashboard shows.
hashchange(d) ==
  /\ Spend("clicks", MaxClicks)
  /\ LeaveDashboard(d)

\* DashboardLogin's onLogin (or the return to #dashboard): the dashboard is shown
\* again, fetchOrders loads the orders and the subscription effect runs.
onLogin(d) ==
  /\ Spend("clicks", MaxClicks)
  /\ ~authed[d]
  /\ InFlight < MaxInFlight
  /\ authed' = [authed EXCEPT ![d] = TRUE]
  /\ LET e == SubscriptionEffect(d, FALSE, TRUE)
     IN /\ channel' = [channel EXCEPT ![d] = e.ch]
        /\ interval' = [interval EXCEPT ![d] = e.iv]
  /\ pollResp' = [pollResp EXCEPT ![d] = {SelectAllDesc(db, DOMAIN db)}]
  /\ UNCHANGED <<db, orders, navOrderId, watchId, statusReq, statusResp, posReq, events,
                 insFetch, custVars, settingsVars, payVars, menuVars, routeVars>>

\* The customer's profile sync answers: setUser(synced) gives the effect a new user
\* object, so it runs again for the same logged-in customer.
setUserSynced ==
  /\ Spend("syncs", MaxSyncs)
  /\ authed[Customer]
  /\ LET e == SubscriptionEffect(Customer, TRUE, TRUE)
     IN /\ channel' = [channel EXCEPT ![Customer] = e.ch]
        /\ interval' = [interval EXCEPT ![Customer] = e.iv]
  /\ UNCHANGED <<db, orders, navOrderId, watchId, statusReq, statusResp, posReq, events,
                 pollResp, insFetch, custVars, settingsVars, payVars, menuVars, authed,
                 routeVars>>

\* ------------------------------------------------------- menu availability
\* The availability switch of a menu item: update({ is_available: !item.isAvailable }).
toggleAvailability(d, productId) ==
  /\ Spend("clicks", MaxClicks)
  /\ authed[d] /\ navOrderId[d] = Null
  /\ productId \in DOMAIN menu[d]
  /\ InFlight < MaxInFlight
  /\ menuReq' = menuReq \cup {[by |-> d, id |-> productId, is_available |-> ~menu[d][productId]]}
  /\ UNCHANGED <<db, orders, navOrderId, watchId, statusReq, statusResp, posReq, events,
                 pollResp, insFetch, custVars, settingsVars, payVars, menu_items, menu, sessVars, routeVars>>

\* The update reaches menu_items; if (!error) the dashboard flips its local flag
\* (the response touches the dashboard's menu only and is handled in the same step).
StoreMenuWrite(r, ok) ==
  /\ r \in menuReq
  /\ menuReq' = menuReq \ {r}
  /\ menu_items' = IF ok THEN [menu_items EXCEPT ![r.id] = r.is_available] ELSE menu_items
  /\ menu' = IF ok THEN [menu EXCEPT ![r.by][r.id] = ~@] ELSE menu
  /\ UNCHANGED <<db, orders, navOrderId, watchId, statusReq, statusResp, posReq, events,
                 pollResp, insFetch, used, custVars, settingsVars, payVars, sessVars, routeVars>>

\* ------------------------------------------------------------- checkout spec
\* The customer's checkout by cash or card, while the kitchen is opened and closed.
\* The insert notifications are all lost here (SpecIns follows them).
NextShop ==
  \/ \E item \in Menu : addToCart(item)
  \/ \E item \in Menu, delta \in {0 - 1, 1} : updateQty(item.id, delta)
  \/ \E pm \in {"cash", "stripe"} : setPaymentMethod(pm)
  \/ placeOrder
  \/ placeOrderCard
  \/ \E ok \in BOOLEAN : createPaymentIntent(ok)
  \/ closeSheet
  \/ handleStripeSuccess
  \/ StoreInsertOrder({})
  \/ StoreInsertOrderFail
  \/ insertOrderError
  \/ \E ok \in BOOLEAN : insertOrderItems(ok)
  \/ \E ok \in BOOLEAN : selectFullOrder(ok)
  \/ insertOrderDone
  \/ \E d \in Dashboards : toggleStoreOpen(d)
  \/ \E r \in settingsReq, ok \in BOOLEAN : StoreSettingsWrite(r, ok)
  \/ \E c \in Clients, ok \in BOOLEAN : fetchStatus(c, ok)
  \/ \E c \in Clients : fetchStatusApply(c)

SpecShop == InitIns /\ [][NextShop]_vars

\* ------------------------------------------------------------ lifecycle spec
NextLife ==
  \/ \E d \in Dashboards : \E i \in 1..Len(orders[d]) : ClickReject(d, i)
  \/ \E d \in Dashboards : \E i \in 1..Len(orders[d]) : ClickNext(d, i)
  \/ \E d \in Dashboards : \E i \in 1..Len(orders[d]) : ClickOutForDelivery(d, i)
  \/ \E d \in Dashboards : \E i \in 1..Len(orders[d]) : ClickNavigate(d, i)
  \/ \E d \in Dashboards : \E i \in 1..Len(orders[d]) : ClickDelivered(d, i)
  \/ \E d \in Dashboards : handleDelivered(d)
  \/ \E d \in Dashboards : onClose(d)
  \/ \E d \in Dashboards, p \in Samples : watchPosition(d, p)
  \/ \E r \in statusReq, to \in SUBSET Clients : StoreStatusWrite(r, to)
  \/ \E r \in statusReq : StoreStatusFail(r)
  \/ \E r \in statusResp : StatusResponse(r)
  \/ \E w \in posReq, to \in SUBSET Clients : StorePosWrite(w, to)
  \/ \E w \in posReq : StorePosFail(w)
  \/ \E c \in Clients : \E e \in events[c] : OnUpdateEvent(c, e)
  \/ \E c \in Clients : \E e \in events[c] : LoseEvent(c, e)
  \/ \E c \in Clients : fetchAll(c)
  \/ \E c \in Clients : fetchAllApply(c)
  \/ \E c \in Clients : fetchAllFail(c)

Spec == InitLife /\ [][NextLife]_vars

\* The lifecycle with a geolocation watch that may also report errors.
NextTrack ==
  \/ NextLife
  \/ \E d \in Dashboards : watchError(d)

SpecTrack == InitLife /\ [][NextTrack]_vars

\* --------------------------------------------------------- two orders spec
\* A second, newer order (two Veggie Momo) waits for the kitchen.
InitRow2 ==
  [ id |-> 2, status |-> "pending", driver_lat |-> Null, driver_lng |-> Null,
    order_items |-> << [menu_item_id |-> 2, qty |-> 2, price |-> 1099] >>,
    total |-> 2 * 1099 + 399, payment_method |-> "cash", payment_status |-> "pending",
    created_at |-> 2 ]

\* The first order is ready or on its way, the second one is pending.  The customer
\* and the first dashboard have fetched both; the second dashboard loaded before the
\* second order was placed and its insert notification was lost.
InitTwo ==
  /\ \E s \in {"ready", "delivering"} :
       /\ db = (1 :> InitRow(s)) @@ (2 :> InitRow2)
       /\ orders = [c \in Clients |->
                      IF c = "d2" THEN <<normalizeOrder(InitRow(s))>>
                      ELSE <<normalizeOrder(InitRow2), normalizeOrder(InitRow(s))>>]
  /\ used = NoneUsed
  /\ InitCustomer
  /\ InitShop
  /\ navOrderId = [d \in Dashboards |-> Null]
  /\ watchId = [d \in Dashboards |-> Null]
  /\ statusReq = {}
  /\ statusResp = {}
  /\ posReq = {}
  /\ events = [c \in Clients |-> {}]
  /\ pollResp = [c \in Clients |-> {}]
  /\ insFetch = [c \in Clients |-> {}]

SpecTwo == InitTwo /\ [][NextLife]_vars

\* Two orders have just been placed.  The customer and the second dashboard show
\* both; the first dashboard loaded before them: its insert handler's select of the
\* first order has been answered but not yet applied, and the insert notification of
\* the second order is on its way to it.
InitNewest ==
  /\ db = (1 :> InitRow("pending")) @@ (2 :> InitRow2)
  /\ orders = [c \in Clients |->
                 IF c = "d1" THEN <<>>
                 ELSE <<normalizeOrder(InitRow2), normalizeOrder(InitRow("pending"))>>]
  /\ insFetch = [c \in Clients |-> IF c = "d1" THEN {InitRow("pending")} ELSE {}]
  /\ events = [c \in Clients |->
                 IF c = "d1" THEN {[type |-> "INSERT", new |-> Payload(InitRow2)]} ELSE {}]
  /\ navOrderId = [d \in Dashboards |-> Null]
  /\ watchId = [d \in Dashboards |-> Null]
  /\ statusReq = {}
  /\ statusResp = {}
  /\ posReq = {}
  /\ pollResp = [c \in Clients |-> {}]
  /\ used = NoneUsed
  /\ InitCustomer
  /\ InitShop

SpecNewest == InitNewest /\ [][NextIns]_vars

\* ------------------------------------------------------- kitchen at work spec
\* The first order is being cooked or on its way and everybody has fetched it; the
\* customer has put two Veggie Momo in the cart for the next order.
InitAll ==
  /\ \E s \in {"cooking", "delivering"} :
       /\ db = (1 :> InitRow(s))
       /\ orders = [c \in Clients |-> <<normalizeOrder(InitRow(s))>>]
  /\ used = NoneUsed
  /\ cart = << [id |-> 2, qty |-> 2, price |-> 1099] >>
  /\ co = Idle
  /\ orderLoading = FALSE
  /\ orderError = ""
  /\ points = 0
  /\ InitShop
  /\ navOrderId = [d \in Dashboards |-> Null]
  /\ watchId = [d \in Dashboards |-> Null]
  /\ statusReq = {}
  /\ statusResp = {}
  /\ posReq = {}
  /\ events = [c \in Clients |-> {}]
  /\ pollResp = [c \in Clients |-> {}]
  /\ insFetch = [c \in Clients |-> {}]

\* Everything that writes to the store: the kitchen works on the orders and on the
\* menu while the customer places the next order.  The notifications are all lost
\* here; a dashboard follows the store by the responses to its own updates.
NextAll ==
  \/ \E d \in Dashboards : \E i \in 1..Len(orders[d]) : ClickNext(d, i)
  \/ \E d \in Dashboards : \E i \in 1..Len(orders[d]) : ClickOutForDelivery(d, i)
  \/ \E d \in Dashboards : \E i \in 1..Len(orders[d]) : ClickDelivered(d, i)
  \/ \E d \in Dashboards : handleDelivered(d)
  \/ \E d \in Dashboards, p \in Samples : watchPosition(d, p)
  \/ \E r \in statusReq : StoreStatusWrite(r, {})
  \/ \E r \in statusReq : StoreStatusFail(r)
  \/ \E r \in statusResp : StatusResponse(r)
  \/ \E w \in posReq : StorePosWrite(w, {})
  \/ \E w \in posReq : StorePosFail(w)
  \/ \E d \in Dashboards, m \in Menu : toggleAvailability(d, m.id)
  \/ \E r \in menuReq, ok \in BOOLEAN : StoreMenuWrite(r, ok)
  \/ placeOrder
  \/ StoreInsertOrder({})
  \/ StoreInsertOrderFail
  \/ insertOrderError
  \/ \E ok \in BOOLEAN : insertOrderItems(ok)
  \/ \E ok \in BOOLEAN : selectFullOrder(ok)
  \/ insertOrderDone

SpecAll == InitAll /\ [][NextAll]_vars

\* ------------------------------------------------------------- sessions spec
\* The dashboards open and leave the navigation view, log out and in, and are left
\* and returned to, while the order is on its way.
NextSess ==
  \/ \E d \in Dashboards : \E i \in 1..Len(orders[d]) : ClickOutForDelivery(d, i)
  \/ \E d \in Dashboards : \E i \in 1..Len(orders[d]) : ClickNavigate(d, i)
  \/ \E d \in Dashboards : handleDelivered(d)
  \/ \E d \in Dashboards : onClose(d)
  \/ \E d \in Dashboards : onLogout(d)
  \/ \E d \in Dashboards : hashchange(d)
  \/ \E d \in Dashboards : onLogin(d)
  \/ setUserSynced
  \/ \E d \in Dashboards, p \in Samples : watchPosition(d, p)
  \/ \E r \in statusReq, to \in SUBSET Clients : StoreStatusWrite(r, to)
  \/ \E r \in statusReq : StoreStatusFail(r)
  \/ \E r \in statusResp : StatusResponse(r)
  \/ \E w \in posReq, to \in SUBSET Clients : StorePosWrite(w, to)
  \/ \E w \in posReq : StorePosFail(w)
  \/ \E c \in Clients : \E e \in events[c] : OnUpdateEvent(c, e)
  \/ \E c \in Clients : \E e \in events[c] : LoseEvent(c, e)
  \/ \E c \in Clients : fetchAll(c)
  \/ \E c \in Clients : fetchAllApply(c)
  \/ \E c \in Clients : fetchAllFail(c)

InitSess ==
  /\ \E s \in {"ready", "delivering"} :
       /\ db = (1 :> InitRow(s))
       /\ orders = [c \in Clients |-> <<normalizeOrder(InitRow(s))>>]
  /\ used = NoneUsed
  /\ InitCustomer
  /\ InitShop
  /\ navOrderId = [d \in Dashboards |-> Null]
  /\ watchId = [d \in Dashboards |-> Null]
  /\ statusReq = {}
  /\ statusResp = {}
  /\ posReq = {}
  /\ events = [c \in Clients |-> {}]
  /\ pollResp = [c \in Clients |-> {}]
  /\ insFetch = [c \in Clients |-> {}]

SpecSess == InitSess /\ [][NextSess]_vars

\* ---------------------------------------------------------------- route spec
\* The order is on its way and its row has a driver position.  The first dashboard
\* has the navigation view open and shows a route; the customer's tracking map has
\* just been mounted.
InitRoute ==
  /\ LET row == [InitRow("delivering") EXCEPT !.driver_lat = 43, !.driver_lng = 79]
     IN /\ db = (1 :> row)
        /\ orders = [c \in Clients |-> <<normalizeOrder(row)>>]
  /\ used = NoneUsed
  /\ InitCustomer
  /\ authed = [c \in Clients |-> TRUE]
  /\ channel = [c \in Clients |-> 1]
  /\ interval = [c \in Clients |-> 1]
  /\ isOpen = TRUE
  /\ storeOpen = [c \in Clients |-> TRUE]
  /\ settingsReq = {}
  /\ statusFetch = [c \in Clients |-> {}]
  /\ paymentMethod = "cash"
  /\ stripeSheetOpen = FALSE
  /\ pay = "idle"
  /\ menu_items = [i \in 1..2 |-> TRUE]
  /\ menu = [d \in Dashboards |-> <<TRUE, TRUE>>]
  /\ menuReq = {}
  /\ navOrderId = [d \in Dashboards |-> IF d = "d1" THEN 1 ELSE Null]
  /\ watchId = [d \in Dashboards |-> IF d = "d1" THEN 1 ELSE Null]
  /\ route = [c \in Clients |->
                IF c = "d1" THEN ShownRoute @@ [timer |-> FALSE] ELSE NoRoute]
  /\ routeReq = {}
  /\ statusReq = {}
  /\ statusResp = {}
  /\ posReq = {}
  /\ events = [c \in Clients |-> {}]
  /\ pollResp = [c \in Clients |-> {}]
  /\ insFetch = [c \in Clients |-> {}]

NextRoute ==
  \/ \E d \in Dashboards : \E i \in 1..Len(orders[d]) : ClickNavigate(d, i)
  \/ \E d \in Dashboards : handleDelivered(d)
  \/ \E d \in Dashboards : onClose(d)
  \/ \E d \in Dashboards, p \in Samples : watchPosition(d, p)
  \/ \E d \in Dashboards : etaTimeout(d)
  \/ \E from \in {"kitchen", "driver"} : mapFetchRoute(from)
  \/ \E r \in routeReq, res \in RouteAnswers : RouteResponse(r, res)
  \/ \E r \in statusReq, to \in SUBSET Clients : StoreStatusWrite(r, to)
  \/ \E r \in statusReq : StoreStatusFail(r)
  \/ \E r \in statusResp : StatusResponse(r)
  \/ \E w \in posReq, to \in SUBSET Clients : StorePosWrite(w, to)
  \/ \E w \in posReq : StorePosFail(w)
  \/ \E c \in Clients : \E e \in events[c] : OnUpdateEvent(c, e)
  \/ \E c \in Clients : \E e \in events[c] : LoseEvent(c, e)

SpecRoute == InitRoute /\ [][NextRoute]_vars

\* -------------------------------------------------------- store status poll spec
NextOpen ==
  \/ \E d \in Dashboards : toggleStoreOpen(d)
  \/ \E r \in settingsReq, ok \in BOOLEAN : StoreSettingsWrite(r, ok)
  \/ \E c \in Clients, ok \in BOOLEAN : statusInterval(c, ok)
  \/ \E c \in Clients : fetchStatusApply(c)

\* Every write of the switch is answered, the status timer of every client keeps
\* firing, its select succeeds again and again, and its answer is handled.
SpecOpen ==
  /\ InitIns
  /\ [][NextOpen]_vars
  /\ WF_vars(\E r \in settingsReq, ok \in BOOLEAN : StoreSettingsWrite(r, ok))
  /\ \A c \in Clients : WF_vars(statusInterval(c, TRUE)) /\ WF_vars(fetchStatusApply(c))

\* --------------------------------------------------------- fallback poll spec
\* Where the store can have come to rest: the order is on its way with a position
\* stored, or delivered or cancelled (with the position cleared or left behind).
RestRows ==
  { [InitRow("delivering") EXCEPT !.driver_lat = 43, !.driver_lng = 79],
    InitRow("delivered"),
    [InitRow("delivered") EXCEPT !.driver_lat = 43, !.driver_lng = 79],
    InitRow("cancelled") }

\* What a client whose notifications were lost can still show: nothing (it loaded
\* before the order was placed), an earlier status, or (the customer, after its
\* checkout) the order twice.
StaleViews(c) ==
  { <<>>, <<normalizeOrder(InitRow("pending"))>>, <<normalizeOrder(InitRow("ready"))>> }
    \cup (IF c = Customer
          THEN { <<normalizeOrder(InitRow("pending")), normalizeOrder(InitRow("pending"))>> }
          ELSE {})

\* The store has stopped changing.  Every client shows a stale collection; an old
\* update event may still be on its way to a client and the response of an old
\* status update on its way to the first dashboard.
InitFair ==
  /\ \E row \in RestRows : db = (1 :> row)
  /\ orders \in [Clients -> UNION {StaleViews(c) : c \in Clients}]
  /\ \A c \in Clients : orders[c] \in StaleViews(c)
  /\ events \in [Clients -> {{}, {[type |-> "UPDATE", new |-> Payload(InitRow("cooking"))]}}]
  /\ statusResp \in {{}, {[by |-> "d1", id |-> 1, status |-> "accepted", error |-> FALSE]}}
  /\ used = NoneUsed
  /\ InitCustomer
  /\ InitShop
  /\ navOrderId = [d \in Dashboards |-> Null]
  /\ watchId = [d \in Dashboards |-> Null]
  /\ statusReq = {}
  /\ posReq = {}
  /\ pollResp = [c \in Clients |-> {}]
  /\ insFetch = [c \in Clients |-> {}]

NextFair ==
  \/ \E c \in Clients : pollInterval(c)
  \/ \E c \in Clients : fetchAllApply(c)
  \/ \E c \in Clients : fetchAllFail(c)
  \/ \E c \in Clients : \E e \in events[c] : OnUpdateEvent(c, e)
  \/ \E c \in Clients : \E e \in events[c] : LoseEvent(c, e)
  \/ \E r \in statusResp : StatusResponse(r)

\* The timer of every client keeps firing, and its poll succeeds again and again.
SpecFair ==
  /\ InitFair
  /\ [][NextFair]_vars
  /\ \A c \in Clients : WF_vars(pollInterval(c)) /\ SF_vars(fetchAllApply(c))

\* ========================================================================
\* Properties
\* ========================================================================

\* b is the step after a in pending -> accepted -> cooking -> ready -> delivering -> delivered.
StepForward(a, b) ==
  \E i \in 1..(Len(ORDER_STATUSES) - 1) : ORDER_STATUSES[i] = a /\ ORDER_STATUSES[i + 1] = b

\* How many records of a local collection have this id.
Count(prev, id) == Cardinality({i \in 1..Len(prev) : prev[i].id = id})

\* The transitions of the status state machine.
Legal(a, b) == StepForward(a, b) \/ (a = "pending" /\ b = "cancelled")

\* C1: every change of an order's persisted status that is not a cancellation moves
\* exactly one step forward in the sequence; it never skips a step or moves backward.
C1_OneStepForward ==
  [][\A o \in DOMAIN db :
       (db'[o].status # db[o].status /\ db'[o].status # "cancelled")
         => StepForward(db[o].status, db'[o].status)]_vars

\* C2: the persisted status becomes 'cancelled' only from 'pending'.
C2_CancelledOnlyFromPending ==
  [][\A o \in DOMAIN db :
       (db'[o].status = "cancelled" /\ db[o].status # "cancelled")
         => db[o].status = "pending"]_vars

\* C3: once the persisted status is 'delivered' or 'cancelled' it never changes again.
C3_TerminalStatusStays ==
  [][\A o \in DOMAIN db :
       db[o].status \in {"delivered", "cancelled"} => db'[o].status = db[o].status]_vars

\* C4: a status update whose new status is not a legal transition from the persisted
\* status it meets is rejected: the persisted status is unchanged and the caller gets
\* an error (so that no local status is changed for it).
C4_IllegalUpdateRejected ==
  [][\A r \in statusReq :
       (r \notin statusReq' /\ ~Legal(db[r.id].status, r.status))
         => /\ db'[r.id].status = db[r.id].status
            /\ \A x \in statusResp' \ statusResp : x.error]_vars

\* C5: in the store, every order whose status is not 'delivering' has driver_lat and
\* driver_lng both null.
C5_CoordsOnlyWhileDelivering ==
  \A o \in DOMAIN db :
    db[o].status # "delivering" => (db[o].driver_lat = Null /\ db[o].driver_lng = Null)

\* C6: a driver position written while the order's persisted status is not
\* 'delivering' leaves the stored driver coordinates as they were.
C6_StalePositionIsNoOp ==
  [][\A o \in DOMAIN db :
       (db[o].status # "delivering" /\ (db'[o].driver_lat # Null \/ db'[o].driver_lng # Null))
         => (db'[o].driver_lat = db[o].driver_lat /\ db'[o].driver_lng = db[o].driver_lng)]_vars

\* C7: when the persisted status changes from 'delivering' to 'delivered', the stored
\* driver coordinates are cleared: they are null, or the write that clears them is
\* on its way to the store.
C7_DeliveredClearsCoords ==
  [][\A o \in DOMAIN db :
       (db[o].status = "delivering" /\ db'[o].status = "delivered")
         => \/ (db'[o].driver_lat = Null /\ db'[o].driver_lng = Null)
            \/ \E w \in posReq' : w.id = o /\ w.lat = Null /\ w.lng = Null]_vars

\* C8: when a viewer applies an update event that carries a status other than
\* 'delivering' and cleared coordinates, its local record of that order has null
\* driverLat and driverLng afterwards.
C8_LocalCoordsCleared ==
  [][\A c \in Clients : \A e \in events[c] :
       ( /\ e.type = "UPDATE"
         /\ e.new.status # "delivering"
         /\ e.new.driver_lat = Null /\ e.new.driver_lng = Null
         /\ events'[c] = events[c] \ {e}
         /\ orders'[c] = applyUpdate(orders[c], e.new) )
       => \A i \in 1..Len(orders'[c]) :
            orders'[c][i].id = e.new.id
              => (orders'[c][i].driverLat = Null /\ orders'[c][i].driverLng = Null)]_vars

\* C9: applying the insert notification of an order twice to a viewer's local
\* collection gives what applying it once gives, with exactly one record of that id.
C9_InsertIdempotent ==
  \A c \in Clients : \A o \in DOMAIN db :
    LET once == applyInsert(orders[c], db[o])
        twice == applyInsert(once, db[o])
    IN twice = once /\ Count(twice, o) = 1

\* C10: no client's local collection holds two records with the same order id.
C10_NoDuplicateIds ==
  \A c \in Clients : \A o \in DOMAIN db : Count(orders[c], o) <= 1

\* C11: applying an update event for order X to a viewer's local collection changes
\* only the status, driverLat and driverLng of the record with id X: that record's
\* id, line items, total and creation time, every other record, and the number and
\* order of the records stay as they were (so a collection without X is unchanged).
C11_UpdateFrame ==
  [][\A c \in Clients : \A e \in events[c] :
       (e.type = "UPDATE" /\ events'[c] = events[c] \ {e})
         => /\ Len(orders'[c]) = Len(orders[c])
            /\ \A i \in 1..Len(orders[c]) :
                 IF orders[c][i].id = e.new.id
                 THEN /\ orders'[c][i].id = orders[c][i].id
                      /\ orders'[c][i].items = orders[c][i].items
                      /\ orders'[c][i].total = orders[c][i].total
                      /\ orders'[c][i].createdAt = orders[c][i].createdAt
                 ELSE orders'[c][i] = orders[c][i]]_vars

\* The customer app, which has not polled, shows the first order as delivered (an
\* update event did that) with its line items, next to the untouched second order.
C11_Witness ==
  /\ used.polls = 0
  /\ Len(orders[Customer]) = 2
  /\ orders[Customer][1] = normalizeOrder(InitRow2)
  /\ orders[Customer][2].id = 1
  /\ orders[Customer][2].status = "delivered"
  /\ orders[Customer][2].items = normalizeOrder(InitRow("ready")).items

\* The local collection holds exactly the store's orders, each once, with the
\* store's status, driver coordinates and line items.
SameAsStore(local) ==
  /\ Len(local) = Cardinality(DOMAIN db)
  /\ \A o \in DOMAIN db :
       \E i \in 1..Len(local) :
         /\ local[i].id = o
         /\ local[i].status = db[o].status
         /\ local[i].driverLat = db[o].driver_lat
         /\ local[i].driverLng = db[o].driver_lng
         /\ Len(local[i].items) = Len(db[o].order_items)
         /\ \A k \in 1..Len(local[i].items) :
              /\ local[i].items[k].id = db[o].order_items[k].menu_item_id
              /\ local[i].items[k].qty = db[o].order_items[k].qty
              /\ local[i].items[k].price = db[o].order_items[k].price

C13_NoInsertWhileClosed ==
  [][DOMAIN db' # DOMAIN db => isOpen]_vars

\* C14: every order row is inserted from a cart with at least one line, each of
\* quantity >= 1, whichever path (cash or card) performs the insert.
C14_NoOrderFromEmptyCart ==
  [][DOMAIN db' # DOMAIN db
       => /\ Len(co.cart) > 0
          /\ \A i \in 1..Len(co.cart) : co.cart[i].qty >= 1]_vars

\* The subtotal of a cart of at most two lines (the menu has two items), in cents.
Subtotal(lines) ==
  (IF Len(lines) >= 1 THEN lines[1].price * lines[1].qty ELSE 0)
    + (IF Len(lines) >= 2 THEN lines[2].price * lines[2].qty ELSE 0)

\* C15: every order row is inserted with status 'pending' and with total = subtotal
\* of the cart it is created from + delivery fee, the fee being 0 for a subtotal of at
\* least 25.00 and 3.99 below it.
C15_PendingWithTotal ==
  [][\A o \in DOMAIN db' \ DOMAIN db :
       /\ Len(co.cart) <= 2
       /\ db'[o].status = "pending"
       /\ db'[o].total = Subtotal(co.cart) + (IF Subtotal(co.cart) >= 2500 THEN 0 ELSE 399)]_vars

\* An order of one Chicken Momo and one Veggie Momo (23.98) is stored with the fee
\* added: 27.97.
C15_Witness ==
  \E o \in DOMAIN db :
    /\ db[o].status = "pending"
    /\ Len(db[o].order_items) = 2
    /\ db[o].order_items[1].qty = 1 /\ db[o].order_items[2].qty = 1
    /\ db[o].total = 1299 + 1099 + 399

\* C16: the persisted total of an order never changes, and its persisted line items
\* never change once they are stored (the one change is the line-item insert of the
\* insertOrder call that is creating the order), whatever status updates, position
\* writes, availability switches and later order creations happen.
C16_TotalAndItemsFrozen ==
  [][\A o \in DOMAIN db :
       /\ o \in DOMAIN db'
       /\ db'[o].total = db[o].total
       /\ \/ db'[o].order_items = db[o].order_items
          \/ (co.pc = "inserted" /\ co.id = o /\ db[o].order_items = <<>>)]_vars

\* The first order has been moved on and carries a driver position, an item has been
\* switched to unavailable and a second order has been stored with its lines; the
\* first order still has its total and its line.
C16_Witness ==
  /\ db[1].status = "delivering"
  /\ db[1].driver_lat = 43
  /\ \E i \in DOMAIN menu_items : ~menu_items[i]
  /\ 2 \in DOMAIN db
  /\ db[2].order_items # <<>>
  /\ db[1].order_items = InitItems
  /\ db[1].total = 1299 + 399

\* C17: line items are created with their order: no order in the store, and no
\* order in a client's local collection, is without line items.
C17_ItemsWithOrder ==
  /\ \A o \in DOMAIN db : db[o].order_items # <<>>
  /\ \A c \in Clients : \A i \in 1..Len(orders[c]) : orders[c][i].items # <<>>

\* C18: when the insert of the order row fails, no order is placed: neither the
\* failing insert nor the handling of its error changes the store, the customer's
\* local collection, the cart or the points, and the handler sets an error message
\* and ends the loading state.
C18_InsertFailurePlacesNothing ==
  [][( \/ (co.pc = "insert" /\ co'.pc = "insertFailed")
       \/ (co.pc = "insertFailed" /\ co'.pc = "idle") )
       => /\ db' = db
          /\ orders'[Customer] = orders[Customer]
          /\ cart' = cart
          /\ points' = points
          /\ co'.pc = "idle" => (orderError' # "" /\ ~orderLoading')]_vars

\* The error is shown after the failed checkout: the store is empty, the cart still
\* holds its lines, there are no points and no local order.
C18_Witness ==
  /\ co.pc = "idle"
  /\ orderError # ""
  /\ db = << >>
  /\ Len(cart) > 0
  /\ points = 0
  /\ orders[Customer] = <<>>

\* C19: when the remote status update failed, handling its response leaves every
\* local collection, and so the operator's local status of the order, as it was.
C19_FailedUpdateKeepsLocal ==
  [][\A r \in statusResp :
       (r.error /\ r \notin statusResp') => orders' = orders]_vars

\* One button was pressed on the pending order, its update failed and the response
\* has been handled: the order is pending in the store and in the dashboards.
C19_Witness ==
  /\ used.clicks = 1
  /\ statusReq = {} /\ statusResp = {}
  /\ db[1].status = "pending"
  /\ \A d \in Dashboards : navOrderId[d] = Null /\ orders[d][1].status = "pending"

\* C20: a geolocation watch is active for an order only while the order's persisted
\* status is 'delivering'.
C20_WatchOnlyWhileDelivering ==
  \A d \in Dashboards :
    watchId[d] # Null => db[watchId[d]].status = "delivering"

\* C21: the geolocation watch is released on every exit path: a watch is active on a
\* dashboard only for the order of its mounted navigation view, so there is none when
\* no navigation view is mounted (after Mark as Delivered, the manual close, the
\* logout or any other unmount) and never more than that one.
C21_WatchReleased ==
  \A d \in Dashboards :
    watchId[d] # Null => (authed[d] /\ navOrderId[d] = watchId[d])

\* The first dashboard opened the navigation view, its watch reported a position
\* that was stored, and the dashboard was then left: no watch is active on it.
C21_Witness ==
  /\ ~authed["d1"] /\ authed["d2"]
  /\ used.clicks = 2
  /\ navOrderId["d2"] = Null
  /\ db[1].driver_lat = 43
  /\ watchId["d1"] = Null

\* C22: when the operator closes the navigation view of an order, sampling stops and
\* the order's persisted driver coordinates are cleared: after the closing step the
\* watch is released and the row's coordinates are null or a write that nulls them
\* has been issued.
C22_CloseClearsCoordinates ==
  [][\A d \in Dashboards :
       (navOrderId[d] # Null /\ navOrderId'[d] = Null) =>
         /\ watchId'[d] = Null
         /\ \/ db'[navOrderId[d]].driver_lat = Null
            \/ [id |-> navOrderId[d], lat |-> Null, lng |-> Null] \in posReq']_vars

\* C23: the lifecycle never blocks on tracking. Whatever the watch did (no sample, an
\* error, a denied permission, a failed or successful position write), a dashboard
\* that shows an order as 'delivering' offers the step to 'delivered' (the card's
\* Delivered button, or Mark as Delivered in the open navigation view), limited only
\* by the run's budgets, and the store accepts every 'delivered' write in flight.
C23_DeliveredNeverBlocked ==
  /\ \A d \in Dashboards : \A i \in 1..Len(orders[d]) :
       ( /\ authed[d]
         /\ orders[d][i].status = "delivering"
         /\ navOrderId[d] \in {Null, orders[d][i].id}
         /\ used.clicks < MaxClicks
         /\ InFlight + 1 < MaxInFlight )
       => ENABLED (ClickDelivered(d, i) \/ handleDelivered(d))
  /\ \A r \in statusReq : r.status = "delivered" => ENABLED StoreStatusWrite(r, {})

\* The watch's only report was an error or a sample whose write was never stored, and
\* the order was marked delivered from the navigation view all the same: the row is
\* 'delivered', it never had coordinates, and the view's clearing write is in flight.
C23_Witness ==
  /\ db[1].status = "delivered"
  /\ db[1].driver_lat = Null
  /\ used.samples = MaxSamples
  /\ [id |-> 1, lat |-> Null, lng |-> Null] \in posReq

\* C24: the recorded payment status follows the payment: every order recorded as a
\* cash order has payment status 'pending', and a row has payment status 'paid' only
\* as a card order.
C24_PaymentStatusMatchesMethod ==
  \A o \in DOMAIN db :
    /\ db[o].payment_method = "cash" => db[o].payment_status = "pending"
    /\ db[o].payment_status = "paid" => db[o].payment_method = "stripe"

\* C25: every viewer's local order collection is ordered newest-first by creation
\* time, whatever full fetches, polls, optimistic prepends and insert handlers
\* produced it.
C25_NewestFirst ==
  \A c \in Clients : \A i, j \in 1..Len(orders[c]) :
    i < j => orders[c][i].createdAt >= orders[c][j].createdAt

\* A map view is mounted: the customer's tracking map, or a dashboard's navigation view.
Mounted(v) == v = Customer \/ navOrderId[v] # Null

\* C26: a routing failure leaves the displayed ETA, distance and route line as they
\* were, in the navigation view and in the customer's tracking map: a step that
\* consumes a routing answer for a view that stays mounted either installs a route
\* of the service or changes nothing of what the views show.
C26_RoutingFailureKeepsDisplay ==
  [][\A r \in routeReq :
       (r \notin routeReq' /\ Mounted(r.view)')
         => \/ route' = route
            \/ \E res \in Routes :
                 /\ route'[r.view].eta = res.eta
                 /\ route'[r.view].distance = res.distance
                 /\ route'[r.view].line = res.line]_vars

\* The navigation view showed a route, a new sample made it ask for a new one, the
\* answer was a failure, and the view still shows the old route; the customer's map
\* got a route and then a failure, and still shows the route.
C26_Witness ==
  /\ navOrderId["d1"] = 1
  /\ used.clicks = 0
  /\ used.samples = MaxSamples
  /\ used.routes = MaxRoutes
  /\ routeReq = {}
  /\ ~route["d1"].timer
  /\ route["d1"].eta = ShownRoute.eta /\ route["d1"].line = ShownRoute.line
  /\ route[Customer].eta # Null

\* C27: in every viewer's local collection the status of an order never moves
\* backward along pending, accepted, cooking, ready, delivering, delivered, whatever
\* the interleaving of update events, local applies and poll responses.
C27_LocalStatusNeverBackward ==
  [][\A c \in Clients : \A i \in 1..Len(orders[c]) : \A j \in 1..Len(orders'[c]) :
       ( /\ orders[c][i].id = orders'[c][j].id
         /\ orders[c][i].status \in {"pending", "accepted", "cooking", "ready",
                                      "delivering", "delivered"}
         /\ orders'[c][j].status \in {"pending", "accepted", "cooking", "ready",
                                       "delivering", "delivered"} )
       => indexOf(orders'[c][j].status) >= indexOf(orders[c][i].status)]_vars

\* C28: each client has at most one realtime channel and at most one orders poll
\* interval at any time, and none while it is logged out (no logged-in customer, no
\* authenticated dashboard shown): every change of user or dashboard mode removes the
\* previous channel and clears the previous interval before new ones are created.
C28_OneSubscription ==
  \A c \in Clients :
    /\ channel[c] \in {0, 1}
    /\ interval[c] \in {0, 1}
    /\ ~authed[c] => (channel[c] = 0 /\ interval[c] = 0)

\* The customer's user object was replaced by the synced one, the second dashboard
\* logged out and in again, and the first dashboard is logged out: the customer and
\* the second dashboard hold one channel and one interval, the first dashboard none.
C28_Witness ==
  /\ used.syncs = MaxSyncs
  /\ used.clicks = MaxClicks
  /\ channel[Customer] = 1 /\ interval[Customer] = 1
  /\ authed["d2"] /\ channel["d2"] = 1 /\ interval["d2"] = 1
  /\ ~authed["d1"] /\ channel["d1"] = 0 /\ interval["d1"] = 0
  /\ navOrderId["d2"] = Null /\ db[1].status = "ready"

\* C29: once the operator's toggles have stopped, every client's local storeOpen
\* flag, the toggling dashboard's included, eventually equals the persisted is_open
\* and stays equal to it, whether the writes succeeded or failed and whatever status
\* polls were in flight at the toggles.
C29_StoreOpenConverges ==
  <>[](\A c \in Clients : storeOpen[c] = isOpen)

\* One toggle happened and its write failed (is_open is still true and no write is
\* open): every client, the toggling dashboard included, shows the kitchen open.
C29_Witness ==
  /\ used.clicks = 1
  /\ settingsReq = {}
  /\ isOpen
  /\ \A c \in Clients : storeOpen[c] /\ statusFetch[c] = {}

\* C30: one checkout creates at most one order: while an order placement is in
\* progress (the payment intent is being requested, or insertOrder is between its
\* insert and its final reset) the Place Order action is disabled, so the same cart
\* cannot be submitted again.
C30_NoPlaceOrderWhilePlacing ==
  (co.pc # "idle" \/ pay # "idle") => ~PlaceOrderButton

=============================================================================
